---- MODULE Spec2Model ----
(***************************************************************************)
(* Model of job_scraper_analyzer.py: the JobScraper collector (paginated   *)
(* fetch, field cleaning) and the JobAnalyzer (preprocessing and summary   *)
(* operations).  Texts are sequences of one-character strings, so that     *)
(* case conversion, substring tests and the regular expressions are        *)
(* computed character by character as the Python code does.                *)
(***************************************************************************)
EXTENDS Integers, Sequences, FiniteSets, TLC

VARIABLES
    pc,         \* JobScraper.scrape_jobs: "idle", "loop" or "done"
    page,       \* loop variable of scrape_jobs
    num_pages,  \* argument of scrape_jobs
    jobs_data,  \* JobScraper.jobs_data
    events,     \* session.get / time.sleep calls issued so far, in order
    responses,  \* what the portal answered to each request, in order
    phase,      \* analyzer / function under study: "new", "ready", "called"
    raw,        \* the jobs_data list handed to JobAnalyzer
    df,         \* JobAnalyzer.df
    arg,        \* argument text of the function under study
    result      \* value returned by the last call

vars == <<pc, page, num_pages, jobs_data, events, responses,
          phase, raw, df, arg, result>>

collectorVars == <<pc, page, num_pages, jobs_data, events, responses>>
analyzerVars == <<phase, raw, df, arg, result>>

-----------------------------------------------------------------------------
(* Bounds of the model *)

MaxPages == 3
MaxPerPage == 2
MaxRecords == 2
MaxTopN == 2
MaxLocParts == 3
MaxSalaryParts == 3
MaxSkillParts == 3

-----------------------------------------------------------------------------
(* Characters and Python str operations *)

LowerLetters ==
    <<"a","b","c","d","e","f","g","h","i","j","k","l","m","n","o","p","q","r","s","t","u","v","w","x","y","z">>

UpperLetters ==
    <<"A","B","C","D","E","F","G","H","I","J","K","L","M","N","O","P","Q","R","S","T","U","V","W","X","Y","Z">>

Range(s) == {s[i] : i \in DOMAIN s}

Digits == {"0","1","2","3","4","5","6","7","8","9"}

Whitespace == {" ", "\t", "\n"}

WordChars == Range(LowerLetters) \cup Range(UpperLetters) \cup Digits \cup {"_"}

IndexIn(s, c) == CHOOSE i \in DOMAIN s : s[i] = c

LowerCh(c) == IF c \in Range(UpperLetters) THEN LowerLetters[IndexIn(UpperLetters, c)] ELSE c

UpperCh(c) == IF c \in Range(LowerLetters) THEN UpperLetters[IndexIn(LowerLetters, c)] ELSE c

IsCased(c) == c \in Range(LowerLetters) \cup Range(UpperLetters)

\* str.lower()
Lower(s) == [i \in 1..Len(s) |-> LowerCh(s[i])]

\* str.title(): a cased character is upper-cased when it does not follow a
\* cased character and lower-cased when it does
Title(s) ==
    [i \in 1..Len(s) |->
        IF i > 1 /\ IsCased(s[i-1]) THEN LowerCh(s[i]) ELSE UpperCh(s[i])]

\* first index >= i whose character is not in C (Len(s)+1 when there is none)
RECURSIVE SkipWhile(_, _, _)
SkipWhile(s, i, C) ==
    IF i <= Len(s) /\ s[i] \in C THEN SkipWhile(s, i + 1, C) ELSE i

\* first index >= i whose character is in C (Len(s)+1 when there is none)
RECURSIVE SkipUntil(_, _, _)
SkipUntil(s, i, C) ==
    IF i <= Len(s) /\ s[i] \notin C THEN SkipUntil(s, i + 1, C) ELSE i

\* last index <= i whose character is not in C (0 when there is none)
RECURSIVE SkipBack(_, _, _)
SkipBack(s, i, C) ==
    IF i >= 1 /\ s[i] \in C THEN SkipBack(s, i - 1, C) ELSE i

StartsWithAt(s, i, k) ==
    /\ i + Len(k) - 1 <= Len(s)
    /\ \A j \in 1..Len(k) : s[i + j - 1] = k[j]

\* the Python test `k in s`, scanning the start positions left to right
RECURSIVE FindFrom(_, _, _)
FindFrom(s, k, i) ==
    IF i + Len(k) - 1 > Len(s) THEN FALSE
    ELSE IF StartsWithAt(s, i, k) THEN TRUE
    ELSE FindFrom(s, k, i + 1)

In(k, s) == FindFrom(s, k, 1)

\* str.strip()
Strip(s) ==
    LET b == SkipWhile(s, 1, Whitespace)
        e == SkipBack(s, Len(s), Whitespace)
    IN  IF b > e THEN <<>> ELSE SubSeq(s, b, e)

\* re.sub(r'\s+', ' ', s)
RECURSIVE CollapseFrom(_, _)
CollapseFrom(s, i) ==
    IF i > Len(s) THEN <<>>
    ELSE IF s[i] \in Whitespace
         THEN <<" ">> \o CollapseFrom(s, SkipWhile(s, i, Whitespace))
         ELSE <<s[i]>> \o CollapseFrom(s, i + 1)

CollapseWhitespace(s) == CollapseFrom(s, 1)

\* re.sub(r'^\W+|\W+$', '', s)
StripNonWord(s) ==
    LET b == SkipUntil(s, 1, WordChars)
        e == IF b > Len(s) THEN Len(s)
             ELSE Len(s) - (SkipUntil([i \in 1..Len(s) |-> s[Len(s) + 1 - i]], 1, WordChars) - 1)
    IN  IF b > e THEN <<>> ELSE SubSeq(s, b, e)

LocationChars == WordChars \cup Whitespace \cup {",", ".", "-"}

\* re.sub(r'[^\w\s,.-]', '', s)
KeepLocationChars(s) == SelectSeq(s, LAMBDA c : c \in LocationChars)

\* concatenation of a sequence of texts
RECURSIVE Concat(_)
Concat(parts) ==
    IF parts = <<>> THEN <<>> ELSE Head(parts) \o Concat(Tail(parts))

\* every sequence over S of length at most n
SeqsUpTo(S, n) == UNION {[1..m -> S] : m \in 0..n}

\* a missing value in a DataFrame cell (None / NaN); never equal to a text,
\* whose elements are single characters
NaN == <<"NaN">>

Unknown == <<"U","n","k","n","o","w","n">>

-----------------------------------------------------------------------------
(* JobScraper *)

Suffixes == <<<<"l","a","k","h">>, <<"L","P","A">>, <<"p","e","r"," ","a","n","n","u","m">>, <<"P","A">>>>

\* index of the first alternative of lakh|LPA|per annum|PA that matches at i,
\* 0 when none does
FirstSuffixAt(s, i) ==
    IF \E n \in DOMAIN Suffixes : StartsWithAt(s, i, Suffixes[n])
    THEN CHOOSE n \in DOMAIN Suffixes :
            /\ StartsWithAt(s, i, Suffixes[n])
            /\ \A m \in 1..(n - 1) : ~StartsWithAt(s, i, Suffixes[m])
    ELSE 0

\* re.search(r'[\d,]+(?:\.\d+)?(?:\s*(?:lakh|LPA|per annum|PA))?', s):
\* the matched text, or NaN when there is no match
SalaryStartChars == Digits \cup {","}

SalarySearch(s) ==
    LET st == SkipUntil(s, 1, SalaryStartChars)
        e1 == SkipWhile(s, st, SalaryStartChars)
        e2 == IF e1 + 1 <= Len(s) /\ s[e1] = "." /\ s[e1 + 1] \in Digits
              THEN SkipWhile(s, e1 + 1, Digits)
              ELSE e1
        w  == SkipWhile(s, e2, Whitespace)
        n  == FirstSuffixAt(s, w)
        e3 == IF n = 0 THEN e2 ELSE w + Len(Suffixes[n])
    IN  IF st > Len(s) THEN NaN ELSE SubSeq(s, st, e3 - 1)

CleanTitle(s) == IF s # <<>> THEN Strip(CollapseWhitespace(s)) ELSE s

CleanCompany(s) ==
    IF s # <<>> THEN StripNonWord(Strip(CollapseWhitespace(s))) ELSE s

CleanLocation(s) ==
    IF s # <<>> THEN KeepLocationChars(Strip(CollapseWhitespace(s))) ELSE s

CleanSalary(s) ==
    IF s # <<>>
    THEN IF SalarySearch(s) # NaN THEN SalarySearch(s) ELSE s
    ELSE s

_clean_job_data(job_data) ==
    [title    |-> CleanTitle(job_data.title),
     company  |-> CleanCompany(job_data.company),
     location |-> CleanLocation(job_data.location),
     salary   |-> CleanSalary(job_data.salary),
     skills   |-> job_data.skills]

\* a job element is modelled by the five texts _safe_extract_text finds in it
_extract_job_data(job_element) == _clean_job_data(job_element)

_extract_job_listings(job_elements) ==
    SelectSeq([i \in 1..Len(job_elements) |-> _extract_job_data(job_elements[i])],
              LAMBDA job : job.title # <<>>)

\* the job elements a result page of the portal may hold
PageElements ==
    { [title    |-> <<"Q","A"," "," ","D","e","v">>,
       company  |-> <<"-","A","c","m","e",".">>,
       location |-> <<"P","u","n","e"," ","(","M","H",")">>,
       salary   |-> <<"6","-","8"," ","L","P","A">>,
       skills   |-> <<"S","Q","L",","," ","R">>],
      [title    |-> <<>>,
       company  |-> <<"B","e","t","a">>,
       location |-> <<>>,
       salary   |-> <<>>,
       skills   |-> <<>>] }

RequestErrors == {"Timeout", "HTTPError"}

NoResult == [op |-> "none"]

EmptyFrame == [columns |-> {}, rows |-> <<>>]

InitCollector ==
    /\ pc = "idle"
    /\ page = 0
    /\ num_pages = 0
    /\ jobs_data = <<>>
    /\ events = <<>>
    /\ responses = <<>>

IdleAnalyzer ==
    /\ phase = "new"
    /\ raw = <<>>
    /\ df = EmptyFrame
    /\ arg = <<>>
    /\ result = NoResult

Init == InitCollector /\ IdleAnalyzer

\* scrape_jobs is called: the loop over range(1, num_pages + 1) starts
ScrapeJobs(n) ==
    /\ pc = "idle"
    /\ pc' = "loop"
    /\ page' = 1
    /\ num_pages' = n
    /\ UNCHANGED <<jobs_data, events, responses>>
    /\ UNCHANGED analyzerVars

\* one iteration whose try block runs to its end
PageSuccess(job_elements) ==
    /\ pc = "loop"
    /\ page <= num_pages
    /\ jobs_data' = jobs_data \o _extract_job_listings(job_elements)
    /\ events' = events \o << <<"get", page>>, <<"sleep", page>> >>
    /\ responses' = Append(responses, [kind |-> "ok", elements |-> job_elements])
    /\ page' = page + 1
    /\ UNCHANGED <<pc, num_pages>>
    /\ UNCHANGED analyzerVars

\* variant: the request error ends the loop (break instead of continue)
PageRequestException_Break(kind) ==
    /\ pc = "loop"
    /\ page <= num_pages
    /\ events' = Append(events, <<"get", page>>)
    /\ responses' = Append(responses, [kind |-> kind, elements |-> <<>>])
    /\ page' = num_pages + 1
    /\ UNCHANGED <<pc, num_pages, jobs_data>>
    /\ UNCHANGED analyzerVars

\* one iteration in which session.get or raise_for_status raises
PageRequestException(kind) ==
    /\ pc = "loop"
    /\ page <= num_pages
    /\ events' = Append(events, <<"get", page>>)
    /\ responses' = Append(responses, [kind |-> kind, elements |-> <<>>])
    /\ page' = page + 1
    /\ UNCHANGED <<pc, num_pages, jobs_data>>
    /\ UNCHANGED analyzerVars

\* one iteration in which parsing the fetched page raises
PageUnexpectedException ==
    /\ pc = "loop"
    /\ page <= num_pages
    /\ events' = Append(events, <<"get", page>>)
    /\ responses' = Append(responses, [kind |-> "ParseError", elements |-> <<>>])
    /\ page' = page + 1
    /\ UNCHANGED <<pc, num_pages, jobs_data>>
    /\ UNCHANGED analyzerVars

\* the loop is exhausted: scrape_jobs returns self.jobs_data
ScrapeReturn ==
    /\ pc = "loop"
    /\ page > num_pages
    /\ pc' = "done"
    /\ result' = [op |-> "scrape_jobs", ret |-> jobs_data]
    /\ UNCHANGED <<page, num_pages, jobs_data, events, responses>>
    /\ UNCHANGED <<phase, raw, df, arg>>

Next ==
    \/ \E n \in 0..MaxPages : ScrapeJobs(n)
    \/ \E job_elements \in SeqsUpTo(PageElements, MaxPerPage) : PageSuccess(job_elements)
    \/ \E kind \in RequestErrors : PageRequestException(kind)
    \/ PageUnexpectedException
    \/ ScrapeReturn

Spec == Init /\ [][Next]_vars

-----------------------------------------------------------------------------
(* Properties of scrape_jobs *)

\* the page numbers of the session.get calls, in the order issued
RequestedPages ==
    LET gets == SelectSeq(events, LAMBDA e : e[1] = "get")
    IN  [i \in 1..Len(gets) |-> gets[i][2]]

\* the records the answered pages hold: none for a page that failed
CollectedFrom(resps) ==
    Concat([i \in 1..Len(resps) |->
              IF resps[i].kind = "ok"
              THEN _extract_job_listings(resps[i].elements)
              ELSE <<>>])

\* C1: whatever pages fail, scrape_jobs does not abort: the pages 1..N are
\* requested once each in ascending order, a failed page contributes no
\* record and the records of the successful pages are all in the result.
C1_FailedPageSkipped ==
    pc \in {"loop", "done"} =>
        /\ RequestedPages = [i \in 1..(page - 1) |-> i]
        /\ Len(responses) = page - 1
        /\ jobs_data = CollectedFrom(responses)
        /\ pc = "done" =>
              /\ page - 1 = num_pages
              /\ result = [op |-> "scrape_jobs", ret |-> CollectedFrom(responses)]

\* a finished run of three pages: records from page 1, page 2 failed, and
\* page 3 was still fetched and added records
C1_Witness ==
    /\ pc = "done"
    /\ num_pages = 3
    /\ responses[1].kind = "ok"
    /\ _extract_job_listings(responses[1].elements) # <<>>
    /\ responses[2].kind # "ok"
    /\ responses[3].kind = "ok"
    /\ Len(jobs_data) > Len(_extract_job_listings(responses[1].elements))

\* C11: between every two consecutive page requests a blocking delay is
\* performed: whatever the outcome of page p, time.sleep is called after the
\* request for page p and before the request for page p+1.
C11_SleepBetweenRequests ==
    \A i, j \in DOMAIN events :
        (/\ i < j
         /\ events[i][1] = "get"
         /\ events[j][1] = "get"
         /\ events[j][2] = events[i][2] + 1)
        => \E k \in (i + 1)..(j - 1) : events[k] = <<"sleep", events[i][2]>>

-----------------------------------------------------------------------------
(* JobAnalyzer *)

FieldNames == {"title", "company", "location", "salary", "skills"}

\* pd.DataFrame(jobs_data): one row per record, the columns are the keys
DataFrame(records) ==
    IF records = <<>> THEN EmptyFrame
    ELSE [columns |-> FieldNames,
          rows    |-> [i \in 1..Len(records) |->
                          [c \in FieldNames |-> records[i][c]]]]

\* df.empty
IsEmpty(frame) == frame.rows = <<>> \/ frame.columns = {}

\* df[name] = cells: row i gets cells[i] in column name
AssignColumn(frame, name, cells) ==
    [columns |-> frame.columns \cup {name},
     rows    |-> [i \in 1..Len(frame.rows) |->
                    [c \in frame.columns \cup {name} |->
                        IF c = name THEN cells[i] ELSE frame.rows[i][c]]]]

\* df[name] as a sequence of cells
Column(frame, name) == [i \in 1..Len(frame.rows) |-> frame.rows[i][name]]

\* Series.fillna(value)
FillNa(v, value) == IF v = NaN THEN value ELSE v

\* re.search(r'^([^,]+)', s): group 1, or NaN when there is no match
BeforeComma(s) ==
    IF s # <<>> /\ s[1] # ","
    THEN SubSeq(s, 1, SkipUntil(s, 1, {","}) - 1)
    ELSE NaN

\* re.search(r'(\w+(?:\s+\w+)?)', s): group 1, or NaN when there is no match
OneOrTwoWords(s) ==
    LET st == SkipUntil(s, 1, WordChars)
        e1 == SkipWhile(s, st, WordChars)
        w  == SkipWhile(s, e1, Whitespace)
        e2 == IF w > e1 /\ w <= Len(s) /\ s[w] \in WordChars
              THEN SkipWhile(s, w, WordChars)
              ELSE e1
    IN  IF st > Len(s) THEN NaN ELSE SubSeq(s, st, e2 - 1)

_extract_city(location) ==
    IF location = <<>> \/ location = Unknown THEN Unknown
    ELSE IF BeforeComma(Strip(location)) # NaN
         THEN Strip(BeforeComma(Strip(location)))
    ELSE IF OneOrTwoWords(Strip(location)) # NaN
         THEN Strip(OneOrTwoWords(Strip(location)))
    ELSE location

skill_keywords ==
    << <<"p","y","t","h","o","n">>,
       <<"r">>,
       <<"s","q","l">>,
       <<"e","x","c","e","l">>,
       <<"t","a","b","l","e","a","u">>,
       <<"p","o","w","e","r"," ","b","i">>,
       <<"p","o","w","e","r","b","i">>,
       <<"p","a","n","d","a","s">>,
       <<"n","u","m","p","y">>,
       <<"m","a","t","p","l","o","t","l","i","b">>,
       <<"s","e","a","b","o","r","n">>,
       <<"p","l","o","t","l","y">>,
       <<"m","a","c","h","i","n","e"," ","l","e","a","r","n","i","n","g">>,
       <<"d","a","t","a"," ","v","i","s","u","a","l","i","z","a","t","i","o","n">>,
       <<"s","t","a","t","i","s","t","i","c","s">>,
       <<"b","u","s","i","n","e","s","s"," ","i","n","t","e","l","l","i","g","e","n","c","e">>,
       <<"e","t","l">>,
       <<"d","a","t","a"," ","m","i","n","i","n","g">>,
       <<"a","n","a","l","y","t","i","c","s">>,
       <<"j","u","p","y","t","e","r">>,
       <<"g","i","t">>,
       <<"h","a","d","o","o","p">>,
       <<"s","p","a","r","k">>,
       <<"a","w","s">>,
       <<"a","z","u","r","e">>,
       <<"m","y","s","q","l">>,
       <<"p","o","s","t","g","r","e","s","q","l">>,
       <<"m","o","n","g","o","d","b">>,
       <<"l","o","o","k","e","r">>,
       <<"q","l","i","k">> >>

\* variant: the keywords are looked up in the text as written
_extract_skills_CaseSensitive(skills_text) ==
    IF skills_text = <<>> THEN <<>>
    ELSE LET found == SelectSeq(skill_keywords, LAMBDA skill : In(skill, skills_text))
         IN  [i \in 1..Len(found) |-> Title(found[i])]

_extract_skills(skills_text) ==
    IF skills_text = <<>> THEN <<>>
    ELSE LET skills_lower == Lower(skills_text)
             found == SelectSeq(skill_keywords, LAMBDA skill : In(skill, skills_lower))
         IN  [i \in 1..Len(found) |-> Title(found[i])]

PreprocessLocation(frame) ==
    IF "location" \in frame.columns
    THEN LET rows == DOMAIN frame.rows
             filled == AssignColumn(frame, "location",
                          [i \in rows |-> FillNa(Column(frame, "location")[i], Unknown)])
             titled == AssignColumn(filled, "location",
                          [i \in rows |-> Title(Column(filled, "location")[i])])
         IN  AssignColumn(titled, "city",
                          [i \in rows |-> _extract_city(Column(titled, "location")[i])])
    ELSE frame

PreprocessCompany(frame) ==
    IF "company" \in frame.columns
    THEN AssignColumn(frame, "company",
                      [i \in DOMAIN frame.rows |->
                          FillNa(Column(frame, "company")[i], Unknown)])
    ELSE frame

PreprocessSkills(frame) ==
    IF "skills" \in frame.columns
    THEN AssignColumn(frame, "extracted_skills",
                      [i \in DOMAIN frame.rows |->
                          _extract_skills(Column(frame, "skills")[i])])
    ELSE frame

\* variant: rows without a location are dropped before enrichment
_preprocess_data_DropNa(frame) ==
    IF IsEmpty(frame) THEN frame
    ELSE PreprocessSkills(PreprocessCompany(PreprocessLocation(
            [columns |-> frame.columns,
             rows    |-> SelectSeq(frame.rows, LAMBDA row : row["location"] # NaN)])))

_preprocess_data(frame) ==
    IF IsEmpty(frame) THEN frame
    ELSE PreprocessSkills(PreprocessCompany(PreprocessLocation(frame)))

\* the distinct elements of s in the order of their first occurrence
RECURSIVE FirstSeen(_)
FirstSeen(s) ==
    IF s = <<>> THEN <<>>
    ELSE LET init == FirstSeen(SubSeq(s, 1, Len(s) - 1))
             last == s[Len(s)]
         IN  IF last \in Range(init) THEN init ELSE Append(init, last)

Occurrences(s, v) == Cardinality({i \in DOMAIN s : s[i] = v})

\* Counter(s): <<key, count>> pairs in insertion order
Counter(s) ==
    LET keys == FirstSeen(s)
    IN  [i \in 1..Len(keys) |-> <<keys[i], Occurrences(s, keys[i])>>]

\* the pairs by descending count, equal counts in their given order
RECURSIVE ByCountDesc(_)
ByCountDesc(pairs) ==
    IF pairs = <<>> THEN <<>>
    ELSE LET top == CHOOSE i \in DOMAIN pairs :
                        /\ \A j \in DOMAIN pairs : pairs[j][2] <= pairs[i][2]
                        /\ \A j \in 1..(i - 1) : pairs[j][2] < pairs[i][2]
             rest == [j \in 1..(Len(pairs) - 1) |->
                        IF j < top THEN pairs[j] ELSE pairs[j + 1]]
         IN  <<pairs[top]>> \o ByCountDesc(rest)

FirstN(s, n) == SubSeq(s, 1, IF n < Len(s) THEN n ELSE Len(s))

\* Counter.most_common(n)
most_common(counter, n) == FirstN(ByCountDesc(counter), n)

\* Series.value_counts(): missing values are not counted
value_counts(col) == ByCountDesc(Counter(SelectSeq(col, LAMBDA v : v # NaN)))

\* Series.nunique()
nunique(col) == Cardinality(Range(col) \ {NaN})

\* Series.notna().sum()
notna_sum(col) == Cardinality({i \in DOMAIN col : col[i] # NaN})

\* a call that reads the columns `reads` raises KeyError when one is absent
Call(op, frame, reads, value) ==
    IF reads \subseteq frame.columns
    THEN [op |-> op, raised |-> FALSE, ret |-> value]
    ELSE [op |-> op, raised |-> TRUE]

\* variant: the columns are read without testing that they exist
generate_summary_Unguarded(frame) ==
    Call("generate_summary", frame,
         {"company", "location", "salary"},
         [total_jobs       |-> Len(frame.rows),
          unique_companies |-> nunique(Column(frame, "company")),
          unique_locations |-> nunique(Column(frame, "location")),
          jobs_with_salary |-> notna_sum(Column(frame, "salary"))])

generate_summary(frame) ==
    Call("generate_summary", frame,
         {c \in {"company", "location", "salary"} : c \in frame.columns},
         [total_jobs       |-> Len(frame.rows),
          unique_companies |-> IF "company" \in frame.columns
                               THEN nunique(Column(frame, "company")) ELSE 0,
          unique_locations |-> IF "location" \in frame.columns
                               THEN nunique(Column(frame, "location")) ELSE 0,
          jobs_with_salary |-> IF "salary" \in frame.columns
                               THEN notna_sum(Column(frame, "salary")) ELSE 0])

get_top_locations(frame, top_n) ==
    IF "city" \notin frame.columns
    THEN [op |-> "get_top_locations", raised |-> FALSE, top_n |-> top_n, ret |-> <<>>]
    ELSE [op |-> "get_top_locations", raised |-> FALSE, top_n |-> top_n,
          ret |-> FirstN(value_counts(Column(frame, "city")), top_n)]

\* variant: a skill is counted once however many records mention it
get_top_skills_Dedup(frame, top_n) ==
    IF "extracted_skills" \notin frame.columns
    THEN [op |-> "get_top_skills", raised |-> FALSE, top_n |-> top_n,
          ret |-> <<>>, printed |-> <<>>]
    ELSE LET all_skills == FirstSeen(Concat(Column(frame, "extracted_skills")))
             skill_counts == Counter(all_skills)
             top_skills == most_common(skill_counts, top_n)
         IN  [op |-> "get_top_skills", raised |-> FALSE, top_n |-> top_n,
              ret |-> skill_counts, printed |-> top_skills]

\* ret is the returned skill_counts, printed the top_skills lines written out
get_top_skills(frame, top_n) ==
    IF "extracted_skills" \notin frame.columns
    THEN [op |-> "get_top_skills", raised |-> FALSE, top_n |-> top_n,
          ret |-> <<>>, printed |-> <<>>]
    ELSE LET all_skills == Concat(Column(frame, "extracted_skills"))
             skill_counts == Counter(all_skills)
             top_skills == most_common(skill_counts, top_n)
         IN  [op |-> "get_top_skills", raised |-> FALSE, top_n |-> top_n,
              ret |-> skill_counts, printed |-> top_skills]

\* the records a caller may hand to JobAnalyzer
Locations == {<<>>, NaN, <<"p","u","n","e",","," ","m","h">>}

Salaries == {<<>>, NaN, <<"6">>}

SkillTexts == {<<>>, <<"S","Q","L",","," ","R">>, <<"r">>}

RawRecords ==
    {[title |-> <<"Q","A">>, company |-> <<"A","c","m","e">>, location |-> l, salary |-> s, skills |-> k] :
        l \in Locations, s \in Salaries, k \in SkillTexts}

InitAnalyzer ==
    /\ phase = "new"
    /\ raw \in SeqsUpTo(RawRecords, MaxRecords)
    /\ df = EmptyFrame
    /\ arg = <<>>
    /\ result = NoResult

\* JobAnalyzer(jobs_data): builds the table and preprocesses it
JobAnalyzerInit ==
    /\ phase = "new"
    /\ phase' = "ready"
    /\ df' = _preprocess_data(DataFrame(raw))
    /\ UNCHANGED <<raw, arg, result>>
    /\ UNCHANGED collectorVars

GenerateSummary ==
    /\ phase = "ready"
    /\ result' = generate_summary(df)
    /\ UNCHANGED <<phase, raw, df, arg>>
    /\ UNCHANGED collectorVars

GetTopLocations(top_n) ==
    /\ phase = "ready"
    /\ result' = get_top_locations(df, top_n)
    /\ UNCHANGED <<phase, raw, df, arg>>
    /\ UNCHANGED collectorVars

GetTopSkills(top_n) ==
    /\ phase = "ready"
    /\ result' = get_top_skills(df, top_n)
    /\ UNCHANGED <<phase, raw, df, arg>>
    /\ UNCHANGED collectorVars

AnalyzerInit == InitCollector /\ InitAnalyzer

AnalyzerNext ==
    \/ JobAnalyzerInit
    \/ GenerateSummary
    \/ \E top_n \in 0..MaxTopN : GetTopLocations(top_n)
    \/ \E top_n \in 0..MaxTopN : GetTopSkills(top_n)

AnalyzerSpec == AnalyzerInit /\ [][AnalyzerNext]_vars

-----------------------------------------------------------------------------
(* Properties of JobAnalyzer *)

\* k occurs in s as a contiguous run of characters
HasSubstring(s, k) ==
    \E i \in 1..(Len(s) - Len(k) + 1) : SubSeq(s, i, i + Len(k) - 1) = k

\* the count a Counter reports for key (0 when it has no entry)
CountOf(counter, key) ==
    IF \E i \in DOMAIN counter : counter[i][1] = key
    THEN counter[CHOOSE i \in DOMAIN counter : counter[i][1] = key][2]
    ELSE 0

\* the number of input records whose lower-cased skills text contains k
RecordsMentioning(k) ==
    Cardinality({i \in DOMAIN raw : HasSubstring(Lower(raw[i].skills), k)})

\* C2: after construction the table has as many rows as the input list has
\* records.
C2_RowCountPreserved ==
    phase = "ready" => Len(df.rows) = Len(raw)

\* two records went through preprocessing, one of them without a location
C2_Witness ==
    /\ phase = "ready"
    /\ Len(raw) = 2
    /\ raw[1].location = NaN
    /\ "city" \in df.columns
    /\ "extracted_skills" \in df.columns

\* C3: the count get_top_skills reports for a keyword, under its title-cased
\* name, is the number of input records whose lower-cased skills text
\* contains the keyword; a keyword in no record has no entry.
C3_SkillCountsMatch ==
    result.op = "get_top_skills" =>
        /\ \A n \in DOMAIN skill_keywords :
              CountOf(result.ret, Title(skill_keywords[n]))
                  = RecordsMentioning(skill_keywords[n])
        /\ \A i \in DOMAIN result.ret : result.ret[i][2] > 0

\* two records mention r, one of them in upper case, and one mentions sql
C3_Witness ==
    /\ result.op = "get_top_skills"
    /\ Len(raw) = 2
    /\ CountOf(result.ret, <<"R">>) = 2
    /\ CountOf(result.ret, <<"S","q","l">>) = 1
    /\ CountOf(result.ret, <<"P","y","t","h","o","n">>) = 0

\* C4: get_top_skills(top_n) returns at most top_n skills, and no skill left
\* out has a strictly higher count than a returned one.
C4_ReturnsTopN ==
    result.op = "get_top_skills" =>
        /\ Len(result.ret) <= result.top_n
        /\ \A n, m \in DOMAIN skill_keywords :
              (/\ CountOf(result.ret, Title(skill_keywords[n])) > 0
               /\ CountOf(result.ret, Title(skill_keywords[m])) = 0)
              => RecordsMentioning(skill_keywords[m]) <= RecordsMentioning(skill_keywords[n])

AllZero ==
    [total_jobs |-> 0, unique_companies |-> 0,
     unique_locations |-> 0, jobs_with_salary |-> 0]

\* C5: built from an empty list, the table has no rows and no aggregate
\* operation raises: generate_summary returns zero for its four counts,
\* get_top_locations an empty series and get_top_skills an empty counter.
C5_EmptyInput ==
    raw = <<>> =>
        /\ phase = "ready" => Len(df.rows) = 0
        /\ result.op \in {"generate_summary", "get_top_locations", "get_top_skills"}
              => ~result.raised
        /\ result.op = "generate_summary" => result.ret = AllZero
        /\ result.op = "get_top_locations" => result.ret = <<>>
        /\ result.op = "get_top_skills" => result.ret = <<>>

\* generate_summary has been called on the analyzer of an empty list
C5_Witness ==
    /\ raw = <<>>
    /\ phase = "ready"
    /\ result.op = "generate_summary"

\* C6: jobs_with_salary is the number of records with a non-empty salary.
C6_JobsWithSalary ==
    (result.op = "generate_summary" /\ ~result.raised) =>
        result.ret.jobs_with_salary
            = Cardinality({i \in DOMAIN raw : raw[i].salary \notin {<<>>, NaN}})

\* C7: a record whose raw location is the empty string has location
\* "Unknown" in the table.
C7_EmptyLocationUnknown ==
    phase = "ready" =>
        \A i \in DOMAIN raw :
            raw[i].location = <<>> => df.rows[i]["location"] = Unknown

-----------------------------------------------------------------------------
(* The text functions, each applied to one argument *)

TextsOf(parts, n) == {Concat(p) : p \in SeqsUpTo(parts, n)}

LocationParts ==
    {<<"B","a","n","g","a","l","o","r","e",","," ">>, <<"K","a","r","n","a","t","a","k","a">>, <<"N","e","w"," ">>, <<"D","e","l","h","i"," ">>, <<"P","u","n","e",",">>, <<"I","n","d","i","a">>}

LocationTexts == TextsOf(LocationParts, MaxLocParts) \cup {Unknown}

SalaryParts ==
    {<<"6">>, <<"8">>, <<"-">>, <<" ">>, <<"L","P","A">>, <<"P","A">>, <<".">>, <<"1",",">>, <<"R","s",","," ">>, <<"x">>}

\* the salary texts of the sample data of demo_with_sample_data
SampleSalaries == {<<"6","-","8"," ","L","P","A">>, <<"4","-","6"," ","L","P","A">>, <<"8","-","1","2"," ","L","P","A">>, <<"5","-","7"," ","L","P","A">>, <<"2","-","3"," ","L","P","A">>, <<"7","-","9"," ","L","P","A">>, <<"5","-","8"," ","L","P","A">>, <<"6","-","1","0"," ","L","P","A">>}

SalaryTexts == TextsOf(SalaryParts, MaxSalaryParts) \cup SampleSalaries

SkillParts == {<<"P","y","t","h","o","n">>, <<"S","Q","L">>, <<"r">>, <<","," ">>, <<"P","o","w","e","r">>, <<" ">>, <<"B","I">>, <<"M","y","S","Q","L">>, <<"x">>}

SkillArgTexts == TextsOf(SkillParts, MaxSkillParts)

InitFunction(texts) ==
    /\ phase = "new"
    /\ raw = <<>>
    /\ df = EmptyFrame
    /\ arg \in texts
    /\ result = NoResult

ExtractCity ==
    /\ phase = "new"
    /\ phase' = "called"
    /\ result' = [op |-> "_extract_city", ret |-> _extract_city(arg)]
    /\ UNCHANGED <<raw, df, arg>>
    /\ UNCHANGED collectorVars

CityInit == InitCollector /\ InitFunction(LocationTexts)

CityNext == ExtractCity

CitySpec == CityInit /\ [][CityNext]_vars

\* the job element whose salary text is the argument
JobWithSalary(salary) ==
    [title    |-> <<"Q","A">>,
     company  |-> <<"A","c","m","e">>,
     location |-> <<"P","u","n","e">>,
     salary   |-> salary,
     skills   |-> <<"S","Q","L">>]

CleanJobData ==
    /\ phase = "new"
    /\ phase' = "called"
    /\ result' = [op |-> "_clean_job_data", ret |-> _clean_job_data(JobWithSalary(arg))]
    /\ UNCHANGED <<raw, df, arg>>
    /\ UNCHANGED collectorVars

SalaryInit == InitCollector /\ InitFunction(SalaryTexts)

SalaryNext == CleanJobData

SalarySpec == SalaryInit /\ [][SalaryNext]_vars

ExtractSkills ==
    /\ phase = "new"
    /\ phase' = "called"
    /\ result' = [op |-> "_extract_skills", ret |-> _extract_skills(arg)]
    /\ UNCHANGED <<raw, df, arg>>
    /\ UNCHANGED collectorVars

SkillsInit == InitCollector /\ InitFunction(SkillArgTexts)

SkillsNext == ExtractSkills

SkillsSpec == SkillsInit /\ [][SkillsNext]_vars

-----------------------------------------------------------------------------
(* Properties of the text functions *)

HasComma(s) == "," \in Range(s)

\* the text before the first comma of s
TextBeforeComma(s) ==
    SubSeq(s, 1, (CHOOSE i \in DOMAIN s :
                      s[i] = "," /\ \A j \in 1..(i - 1) : s[j] # ",") - 1)

\* the maximal runs of non-whitespace characters of s, as <<first, last>>
TokenSpans(s) ==
    {<<b, e>> \in (DOMAIN s) \X (DOMAIN s) :
        /\ b <= e
        /\ \A i \in b..e : s[i] \notin Whitespace
        /\ (b > 1 => s[b - 1] \in Whitespace)
        /\ (e < Len(s) => s[e + 1] \in Whitespace)}

\* the texts made of the first token of s, or of its first two tokens
FirstOneOrTwoTokens(s) ==
    LET spans == TokenSpans(s)
        first == CHOOSE sp \in spans : \A o \in spans : sp[1] <= o[1]
        later == spans \ {first}
        second == CHOOSE sp \in later : \A o \in later : sp[1] <= o[1]
    IN  IF spans = {} THEN {}
        ELSE IF later = {} THEN {SubSeq(s, first[1], first[2])}
        ELSE {SubSeq(s, first[1], first[2]), SubSeq(s, first[1], second[2])}

\* C8: for a non-empty location other than "Unknown", _extract_city returns
\* the text before the first comma when there is a comma, and only the first
\* one or two whitespace-delimited tokens when there is none.
C8_CityRule ==
    (result.op = "_extract_city" /\ arg # <<>> /\ arg # Unknown) =>
        IF HasComma(arg)
        THEN result.ret \in {TextBeforeComma(arg), Strip(TextBeforeComma(arg))}
        ELSE result.ret \in FirstOneOrTwoTokens(arg)

HasDigit(s) == \E i \in DOMAIN s : s[i] \in Digits

\* the first numeric token of s: from its first digit, the digits and commas
\* that follow, a decimal part if any, and a directly following suffix if any
FirstNumericToken(s) ==
    LET b  == CHOOSE i \in DOMAIN s : s[i] \in Digits /\ \A j \in 1..(i - 1) : s[j] \notin Digits
        e1 == CHOOSE i \in b..Len(s) :
                  /\ \A j \in b..i : s[j] \in Digits \cup {","}
                  /\ (i < Len(s) => s[i + 1] \notin Digits \cup {","})
        hasDec == e1 + 2 <= Len(s) /\ s[e1 + 1] = "." /\ s[e1 + 2] \in Digits
        e2 == IF hasDec
              THEN CHOOSE i \in (e1 + 2)..Len(s) :
                      /\ \A j \in (e1 + 2)..i : s[j] \in Digits
                      /\ (i < Len(s) => s[i + 1] \notin Digits)
              ELSE e1
        ends == {i \in (e2 + 1)..Len(s) :
                    \E w \in e2..i : \E n \in DOMAIN Suffixes :
                        /\ \A j \in (e2 + 1)..w : s[j] \in Whitespace
                        /\ SubSeq(s, w + 1, i) = Suffixes[n]}
        e3 == IF ends = {} THEN e2 ELSE CHOOSE i \in ends : \A o \in ends : o <= i
    IN  SubSeq(s, b, e3)

\* C9: _clean_job_data reduces a non-empty salary text to its first numeric
\* token plus an optional directly following suffix, so "6-8 LPA" becomes
\* "6"; a salary text without a numeric token is left unchanged.
C9_SalaryRule ==
    (result.op = "_clean_job_data" /\ arg # <<>>) =>
        /\ arg = <<"6","-","8"," ","L","P","A">> => result.ret.salary = <<"6">>
        /\ HasDigit(arg) => result.ret.salary = FirstNumericToken(arg)
        /\ ~HasDigit(arg) => result.ret.salary = arg

\* the place of a title-cased skill in the keyword list
KeywordIndex(name) ==
    CHOOSE n \in DOMAIN skill_keywords : Title(skill_keywords[n]) = name

\* C10: _extract_skills returns exactly the keywords that occur in the
\* lower-cased text, title-cased, each once, in the order of the keyword
\* list; for an empty text it returns the empty sequence.
C10_ExtractSkills ==
    result.op = "_extract_skills" =>
        /\ \A n \in DOMAIN skill_keywords :
              Cardinality({i \in DOMAIN result.ret :
                              result.ret[i] = Title(skill_keywords[n])})
                  = IF HasSubstring(Lower(arg), skill_keywords[n]) THEN 1 ELSE 0
        /\ \A i \in DOMAIN result.ret :
              \E n \in DOMAIN skill_keywords : result.ret[i] = Title(skill_keywords[n])
        /\ \A i, j \in DOMAIN result.ret :
              i < j => KeywordIndex(result.ret[i]) < KeywordIndex(result.ret[j])
        /\ arg = <<>> => result.ret = <<>>

\* the text names SQL before Python, the result lists Python before Sql
C10_Witness ==
    /\ result.op = "_extract_skills"
    /\ arg = <<"S","Q","L",","," ","P","y","t","h","o","n">>
    /\ result.ret = <<<<"P","y","t","h","o","n">>, <<"S","q","l">>>>

====
